---- MODULE Spec2Model ----
(***************************************************************************)
(* Contract Risk Bot (contract_analysis_full.py): the audit log, the       *)
(* Analyze Contract and View Audit Log handlers, and the text pipeline     *)
(* (segmentation, classification, entity extraction, clause tagging, risk  *)
(* detection and scoring).                                                 *)
(*                                                                         *)
(* A Python str is modelled as a sequence of characters, each character a  *)
(* one-character string; a character other than printable ASCII, tab,      *)
(* line feed, form feed and carriage return is written by its code point   *)
(* ("U+20B9" is the rupee sign, "U+00A0" the no-break space), and so is    *)
(* the grave accent ("U+0060").                                            *)
(***************************************************************************)
EXTENDS Integers, Sequences, FiniteSets, TLC

VARIABLES
  file,           \* audit_log.json: whether it exists, what it holds, its size
  now,            \* the UTC clock as datetime.utcnow() last read it
  history,        \* every entry a call of audit() appended to its list, in order
  schedule,       \* how the handler runs so far lay in time, across sessions
  lastWriter,     \* the session whose json.dump reached the file last
  text,           \* per session: the text area's value (a str)
  ui,             \* per session: what its last handler run rendered
  clauses,        \* per session, Analyze: extract_clauses(text)
  contract_type,  \* per session, Analyze: classify_contract(text)
  entities,       \* per session, Analyze: extract_entities(text)
  results,        \* per session, Analyze: one record per clause (type, level, ...)
  scores,         \* per session, Analyze: the per-clause risk counts
  composite_risk, \* per session, Analyze: the composite score, in hundredths
  resegmented,    \* per session: per clause, extract_clauses applied to that clause
  pc,             \* per session: the place its script run has reached
  logs,           \* per session: audit()'s local list `logs`
  entry,          \* per session: audit()'s local dict `entry`
  presses         \* the buttons pressed so far

vars == << file, now, history, schedule, lastWriter, text, ui, clauses,
           contract_type, entities, results, scores, composite_risk,
           resegmented, pc, logs, entry, presses >>

(***************************************************************************)
(* Characters and str methods                                              *)
(***************************************************************************)
Range(s) == { s[i] : i \in DOMAIN s }
\* the least and the greatest element of a non-empty set of integers
Min(S) == CHOOSE x \in S : \A y \in S : x <= y
Max(S) == CHOOSE x \in S : \A y \in S : x >= y
\* the least element of a set of indices, 0 when it has none
First(S) == IF S = { } THEN 0 ELSE Min(S)

\* The characters U+0020..U+007E, in code point order (the grave accent,
\* which a string of this notation cannot hold, by its code point).
Printable ==
  << " ", "!", "\"", "#", "$", "%", "&", "'", "(", ")", "*", "+", ",", "-",
     ".", "/", "0", "1", "2", "3", "4", "5", "6", "7", "8", "9", ":", ";",
     "<", "=", ">", "?", "@", "A", "B", "C", "D", "E", "F", "G", "H", "I",
     "J", "K", "L", "M", "N", "O", "P", "Q", "R", "S", "T", "U", "V", "W",
     "X", "Y", "Z", "[", "\\", "]", "^", "_", "U+0060", "a", "b", "c", "d", "e",
     "f", "g", "h", "i", "j", "k", "l", "m", "n", "o", "p", "q", "r", "s",
     "t", "u", "v", "w", "x", "y", "z", "{", "|", "}", "~" >>
HexDigits == << "0", "1", "2", "3", "4", "5", "6", "7", "8", "9",
                "A", "B", "C", "D", "E", "F" >>

RECURSIVE Hex(_)
Hex(n) ==
  IF n < 16 THEN HexDigits[n + 1]
  ELSE Hex(n \div 16) \o HexDigits[(n % 16) + 1]

\* chr(n): the character with code point n.  A printable ASCII character,
\* tab, line feed, form feed and carriage return are written as themselves
\* (the grave accent excepted), every other character by its code point in
\* at least four hex digits.
Chr(n) ==
  IF n >= 32 /\ n <= 126 THEN Printable[n - 31]
  ELSE IF n = 9 THEN "\t"
  ELSE IF n = 10 THEN "\n"
  ELSE IF n = 12 THEN "\f"
  ELSE IF n = 13 THEN "\r"
  ELSE "U+" \o (IF n < 16 THEN "000" ELSE IF n < 256 THEN "00"
                ELSE IF n < 4096 THEN "0" ELSE "") \o Hex(n)

\* the characters of a set of code point ranges <<first, last>>
CharsIn(ranges) == UNION { { Chr(n) : n \in r[1]..r[2] } : r \in ranges }

\* The code points str.isspace(), str.strip() and the pattern \s accept
\* (the same 29 characters for all three).
WhitespaceRanges ==
  { <<9, 13>>, <<28, 32>>, <<133, 133>>, <<160, 160>>, <<5760, 5760>>,
    <<8192, 8202>>, <<8232, 8233>>, <<8239, 8239>>, <<8287, 8287>>,
    <<12288, 12288>> }
Whitespace == CharsIn(WhitespaceRanges)

\* The code points the pattern \d accepts on a str: the decimal digits of
\* every script (Unicode category Nd).
DigitRanges ==
  { <<48, 57>>, <<1632, 1641>>, <<1776, 1785>>, <<1984, 1993>>,
    <<2406, 2415>>, <<2534, 2543>>, <<2662, 2671>>, <<2790, 2799>>,
    <<2918, 2927>>, <<3046, 3055>>, <<3174, 3183>>, <<3302, 3311>>,
    <<3430, 3439>>, <<3558, 3567>>, <<3664, 3673>>, <<3792, 3801>>,
    <<3872, 3881>>, <<4160, 4169>>, <<4240, 4249>>, <<6112, 6121>>,
    <<6160, 6169>>, <<6470, 6479>>, <<6608, 6617>>, <<6784, 6793>>,
    <<6800, 6809>>, <<6992, 7001>>, <<7088, 7097>>, <<7232, 7241>>,
    <<7248, 7257>>, <<42528, 42537>>, <<43216, 43225>>, <<43264, 43273>>,
    <<43472, 43481>>, <<43504, 43513>>, <<43600, 43609>>, <<44016, 44025>>,
    <<65296, 65305>>, <<66720, 66729>>, <<68912, 68921>>, <<69734, 69743>>,
    <<69872, 69881>>, <<69942, 69951>>, <<70096, 70105>>, <<70384, 70393>>,
    <<70736, 70745>>, <<70864, 70873>>, <<71248, 71257>>, <<71360, 71369>>,
    <<71472, 71481>>, <<71904, 71913>>, <<72016, 72025>>, <<72784, 72793>>,
    <<73040, 73049>>, <<73120, 73129>>, <<92768, 92777>>, <<92864, 92873>>,
    <<93008, 93017>>, <<120782, 120831>>, <<123200, 123209>>,
    <<123632, 123641>>, <<125264, 125273>>, <<130032, 130041>> }
Digits == CharsIn(DigitRanges)

\* str.lower(), one character to one character: <<first, last, step, delta>>
\* lowers every step-th code point n of first..last to n + delta.
LowerRanges ==
  { <<65, 90, 1, 32>>, <<192, 214, 1, 32>>, <<216, 222, 1, 32>>,
    <<256, 302, 2, 1>>, <<306, 310, 2, 1>>, <<313, 327, 2, 1>>,
    <<330, 374, 2, 1>>, <<376, 376, 1, -121>>, <<377, 381, 2, 1>>,
    <<385, 385, 1, 210>>, <<386, 388, 2, 1>>, <<390, 390, 1, 206>>,
    <<391, 391, 1, 1>>, <<393, 394, 1, 205>>, <<395, 395, 1, 1>>,
    <<398, 398, 1, 79>>, <<399, 399, 1, 202>>, <<400, 400, 1, 203>>,
    <<401, 401, 1, 1>>, <<403, 403, 1, 205>>, <<404, 404, 1, 207>>,
    <<406, 406, 1, 211>>, <<407, 407, 1, 209>>, <<408, 408, 1, 1>>,
    <<412, 412, 1, 211>>, <<413, 413, 1, 213>>, <<415, 415, 1, 214>>,
    <<416, 420, 2, 1>>, <<422, 422, 1, 218>>, <<423, 423, 1, 1>>,
    <<425, 425, 1, 218>>, <<428, 428, 1, 1>>, <<430, 430, 1, 218>>,
    <<431, 431, 1, 1>>, <<433, 434, 1, 217>>, <<435, 437, 2, 1>>,
    <<439, 439, 1, 219>>, <<440, 440, 1, 1>>, <<444, 444, 1, 1>>,
    <<452, 452, 1, 2>>, <<453, 453, 1, 1>>, <<455, 455, 1, 2>>,
    <<456, 456, 1, 1>>, <<458, 458, 1, 2>>, <<459, 475, 2, 1>>,
    <<478, 494, 2, 1>>, <<497, 497, 1, 2>>, <<498, 500, 2, 1>>,
    <<502, 502, 1, -97>>, <<503, 503, 1, -56>>, <<504, 542, 2, 1>>,
    <<544, 544, 1, -130>>, <<546, 562, 2, 1>>, <<570, 570, 1, 10795>>,
    <<571, 571, 1, 1>>, <<573, 573, 1, -163>>, <<574, 574, 1, 10792>>,
    <<577, 577, 1, 1>>, <<579, 579, 1, -195>>, <<580, 580, 1, 69>>,
    <<581, 581, 1, 71>>, <<582, 590, 2, 1>>, <<880, 882, 2, 1>>,
    <<886, 886, 1, 1>>, <<895, 895, 1, 116>>, <<902, 902, 1, 38>>,
    <<904, 906, 1, 37>>, <<908, 908, 1, 64>>, <<910, 911, 1, 63>>,
    <<913, 929, 1, 32>>, <<932, 939, 1, 32>>, <<975, 975, 1, 8>>,
    <<984, 1006, 2, 1>>, <<1012, 1012, 1, -60>>, <<1015, 1015, 1, 1>>,
    <<1017, 1017, 1, -7>>, <<1018, 1018, 1, 1>>, <<1021, 1023, 1, -130>>,
    <<1024, 1039, 1, 80>>, <<1040, 1071, 1, 32>>, <<1120, 1152, 2, 1>>,
    <<1162, 1214, 2, 1>>, <<1216, 1216, 1, 15>>, <<1217, 1229, 2, 1>>,
    <<1232, 1326, 2, 1>>, <<1329, 1366, 1, 48>>, <<4256, 4293, 1, 7264>>,
    <<4295, 4295, 1, 7264>>, <<4301, 4301, 1, 7264>>,
    <<5024, 5103, 1, 38864>>, <<5104, 5109, 1, 8>>, <<7312, 7354, 1, -3008>>,
    <<7357, 7359, 1, -3008>>, <<7680, 7828, 2, 1>>, <<7838, 7838, 1, -7615>>,
    <<7840, 7934, 2, 1>>, <<7944, 7951, 1, -8>>, <<7960, 7965, 1, -8>>,
    <<7976, 7983, 1, -8>>, <<7992, 7999, 1, -8>>, <<8008, 8013, 1, -8>>,
    <<8025, 8031, 2, -8>>, <<8040, 8047, 1, -8>>, <<8072, 8079, 1, -8>>,
    <<8088, 8095, 1, -8>>, <<8104, 8111, 1, -8>>, <<8120, 8121, 1, -8>>,
    <<8122, 8123, 1, -74>>, <<8124, 8124, 1, -9>>, <<8136, 8139, 1, -86>>,
    <<8140, 8140, 1, -9>>, <<8152, 8153, 1, -8>>, <<8154, 8155, 1, -100>>,
    <<8168, 8169, 1, -8>>, <<8170, 8171, 1, -112>>, <<8172, 8172, 1, -7>>,
    <<8184, 8185, 1, -128>>, <<8186, 8187, 1, -126>>, <<8188, 8188, 1, -9>>,
    <<8486, 8486, 1, -7517>>, <<8490, 8490, 1, -8383>>,
    <<8491, 8491, 1, -8262>>, <<8498, 8498, 1, 28>>, <<8544, 8559, 1, 16>>,
    <<8579, 8579, 1, 1>>, <<9398, 9423, 1, 26>>, <<11264, 11311, 1, 48>>,
    <<11360, 11360, 1, 1>>, <<11362, 11362, 1, -10743>>,
    <<11363, 11363, 1, -3814>>, <<11364, 11364, 1, -10727>>,
    <<11367, 11371, 2, 1>>, <<11373, 11373, 1, -10780>>,
    <<11374, 11374, 1, -10749>>, <<11375, 11375, 1, -10783>>,
    <<11376, 11376, 1, -10782>>, <<11378, 11378, 1, 1>>,
    <<11381, 11381, 1, 1>>, <<11390, 11391, 1, -10815>>,
    <<11392, 11490, 2, 1>>, <<11499, 11501, 2, 1>>, <<11506, 11506, 1, 1>>,
    <<42560, 42604, 2, 1>>, <<42624, 42650, 2, 1>>, <<42786, 42798, 2, 1>>,
    <<42802, 42862, 2, 1>>, <<42873, 42875, 2, 1>>,
    <<42877, 42877, 1, -35332>>, <<42878, 42886, 2, 1>>,
    <<42891, 42891, 1, 1>>, <<42893, 42893, 1, -42280>>,
    <<42896, 42898, 2, 1>>, <<42902, 42920, 2, 1>>,
    <<42922, 42922, 1, -42308>>, <<42923, 42923, 1, -42319>>,
    <<42924, 42924, 1, -42315>>, <<42925, 42925, 1, -42305>>,
    <<42926, 42926, 1, -42308>>, <<42928, 42928, 1, -42258>>,
    <<42929, 42929, 1, -42282>>, <<42930, 42930, 1, -42261>>,
    <<42931, 42931, 1, 928>>, <<42932, 42946, 2, 1>>,
    <<42948, 42948, 1, -48>>, <<42949, 42949, 1, -42307>>,
    <<42950, 42950, 1, -35384>>, <<42951, 42953, 2, 1>>,
    <<42960, 42960, 1, 1>>, <<42966, 42968, 2, 1>>, <<42997, 42997, 1, 1>>,
    <<65313, 65338, 1, 32>>, <<66560, 66599, 1, 40>>,
    <<66736, 66771, 1, 40>>, <<66928, 66938, 1, 39>>,
    <<66940, 66954, 1, 39>>, <<66956, 66962, 1, 39>>,
    <<66964, 66965, 1, 39>>, <<68736, 68786, 1, 64>>,
    <<71840, 71871, 1, 32>>, <<93760, 93791, 1, 32>>,
    <<125184, 125217, 1, 34>> }
LowerPairs ==
  UNION { { << Chr(r[1] + k * r[3]), << Chr(r[1] + k * r[3] + r[4]) >> >> :
              k \in 0..((r[2] - r[1]) \div r[3]) } : r \in LowerRanges }

\* capital sigma, its two lower forms, and capital I with dot above, the one
\* character whose lower form is two characters
Sigma == "U+03A3"
SmallSigma == "U+03C3"
FinalSigma == "U+03C2"
DottedI == "U+0130"
CombiningDot == "U+0307"

SpecialPairs ==
  { << Sigma, << SmallSigma >> >>, << DottedI, << "i", CombiningDot >> >> }

\* the function that takes x to y for every pair <<x, y>> of a set of pairs
MapOf(pairs) ==
  [ c \in { p[1] : p \in pairs } |-> (CHOOSE p \in pairs : p[1] = c)[2] ]

\* what each character that str.lower() changes lowers to, as a str (capital
\* sigma: outside the final position)
LowerMap == MapOf(LowerPairs \cup SpecialPairs)

\* the characters str.lower() changes
UpperSet == DOMAIN LowerMap

\* The characters the final-sigma scan skips (case-ignorable) ...
CaseIgnorableRanges ==
  { <<39, 39>>, <<46, 46>>, <<58, 58>>, <<94, 94>>, <<96, 96>>, <<168, 168>>,
    <<173, 173>>, <<175, 175>>, <<180, 180>>, <<183, 184>>, <<688, 879>>,
    <<884, 885>>, <<890, 890>>, <<900, 901>>, <<903, 903>>, <<1155, 1161>>,
    <<1369, 1369>>, <<1375, 1375>>, <<1425, 1469>>, <<1471, 1471>>,
    <<1473, 1474>>, <<1476, 1477>>, <<1479, 1479>>, <<1524, 1524>>,
    <<1536, 1541>>, <<1552, 1562>>, <<1564, 1564>>, <<1600, 1600>>,
    <<1611, 1631>>, <<1648, 1648>>, <<1750, 1757>>, <<1759, 1768>>,
    <<1770, 1773>>, <<1807, 1807>>, <<1809, 1809>>, <<1840, 1866>>,
    <<1958, 1968>>, <<2027, 2037>>, <<2042, 2042>>, <<2045, 2045>>,
    <<2070, 2093>>, <<2137, 2139>>, <<2184, 2184>>, <<2192, 2193>>,
    <<2200, 2207>>, <<2249, 2306>>, <<2362, 2362>>, <<2364, 2364>>,
    <<2369, 2376>>, <<2381, 2381>>, <<2385, 2391>>, <<2402, 2403>>,
    <<2417, 2417>>, <<2433, 2433>>, <<2492, 2492>>, <<2497, 2500>>,
    <<2509, 2509>>, <<2530, 2531>>, <<2558, 2558>>, <<2561, 2562>>,
    <<2620, 2620>>, <<2625, 2626>>, <<2631, 2632>>, <<2635, 2637>>,
    <<2641, 2641>>, <<2672, 2673>>, <<2677, 2677>>, <<2689, 2690>>,
    <<2748, 2748>>, <<2753, 2757>>, <<2759, 2760>>, <<2765, 2765>>,
    <<2786, 2787>>, <<2810, 2815>>, <<2817, 2817>>, <<2876, 2876>>,
    <<2879, 2879>>, <<2881, 2884>>, <<2893, 2893>>, <<2901, 2902>>,
    <<2914, 2915>>, <<2946, 2946>>, <<3008, 3008>>, <<3021, 3021>>,
    <<3072, 3072>>, <<3076, 3076>>, <<3132, 3132>>, <<3134, 3136>>,
    <<3142, 3144>>, <<3146, 3149>>, <<3157, 3158>>, <<3170, 3171>>,
    <<3201, 3201>>, <<3260, 3260>>, <<3263, 3263>>, <<3270, 3270>>,
    <<3276, 3277>>, <<3298, 3299>>, <<3328, 3329>>, <<3387, 3388>>,
    <<3393, 3396>>, <<3405, 3405>>, <<3426, 3427>>, <<3457, 3457>>,
    <<3530, 3530>>, <<3538, 3540>>, <<3542, 3542>>, <<3633, 3633>>,
    <<3636, 3642>>, <<3654, 3662>>, <<3761, 3761>>, <<3764, 3772>>,
    <<3782, 3782>>, <<3784, 3789>>, <<3864, 3865>>, <<3893, 3893>>,
    <<3895, 3895>>, <<3897, 3897>>, <<3953, 3966>>, <<3968, 3972>>,
    <<3974, 3975>>, <<3981, 3991>>, <<3993, 4028>>, <<4038, 4038>>,
    <<4141, 4144>>, <<4146, 4151>>, <<4153, 4154>>, <<4157, 4158>>,
    <<4184, 4185>>, <<4190, 4192>>, <<4209, 4212>>, <<4226, 4226>>,
    <<4229, 4230>>, <<4237, 4237>>, <<4253, 4253>>, <<4348, 4348>>,
    <<4957, 4959>>, <<5906, 5908>>, <<5938, 5939>>, <<5970, 5971>>,
    <<6002, 6003>>, <<6068, 6069>>, <<6071, 6077>>, <<6086, 6086>>,
    <<6089, 6099>>, <<6103, 6103>>, <<6109, 6109>>, <<6155, 6159>>,
    <<6211, 6211>>, <<6277, 6278>>, <<6313, 6313>>, <<6432, 6434>>,
    <<6439, 6440>>, <<6450, 6450>>, <<6457, 6459>>, <<6679, 6680>>,
    <<6683, 6683>>, <<6742, 6742>>, <<6744, 6750>>, <<6752, 6752>>,
    <<6754, 6754>>, <<6757, 6764>>, <<6771, 6780>>, <<6783, 6783>>,
    <<6823, 6823>>, <<6832, 6862>>, <<6912, 6915>>, <<6964, 6964>>,
    <<6966, 6970>>, <<6972, 6972>>, <<6978, 6978>>, <<7019, 7027>>,
    <<7040, 7041>>, <<7074, 7077>>, <<7080, 7081>>, <<7083, 7085>>,
    <<7142, 7142>>, <<7144, 7145>>, <<7149, 7149>>, <<7151, 7153>>,
    <<7212, 7219>>, <<7222, 7223>>, <<7288, 7293>>, <<7376, 7378>>,
    <<7380, 7392>>, <<7394, 7400>>, <<7405, 7405>>, <<7412, 7412>>,
    <<7416, 7417>>, <<7468, 7530>>, <<7544, 7544>>, <<7579, 7679>>,
    <<8125, 8125>>, <<8127, 8129>>, <<8141, 8143>>, <<8157, 8159>>,
    <<8173, 8175>>, <<8189, 8190>>, <<8203, 8207>>, <<8216, 8217>>,
    <<8228, 8228>>, <<8231, 8231>>, <<8234, 8238>>, <<8288, 8292>>,
    <<8294, 8303>>, <<8305, 8305>>, <<8319, 8319>>, <<8336, 8348>>,
    <<8400, 8432>>, <<11388, 11389>>, <<11503, 11505>>, <<11631, 11631>>,
    <<11647, 11647>>, <<11744, 11775>>, <<11823, 11823>>, <<12293, 12293>>,
    <<12330, 12333>>, <<12337, 12341>>, <<12347, 12347>>, <<12441, 12446>>,
    <<12540, 12542>>, <<40981, 40981>>, <<42232, 42237>>, <<42508, 42508>>,
    <<42607, 42610>>, <<42612, 42621>>, <<42623, 42623>>, <<42652, 42655>>,
    <<42736, 42737>>, <<42752, 42785>>, <<42864, 42864>>, <<42888, 42890>>,
    <<42994, 42996>>, <<43000, 43001>>, <<43010, 43010>>, <<43014, 43014>>,
    <<43019, 43019>>, <<43045, 43046>>, <<43052, 43052>>, <<43204, 43205>>,
    <<43232, 43249>>, <<43263, 43263>>, <<43302, 43309>>, <<43335, 43345>>,
    <<43392, 43394>>, <<43443, 43443>>, <<43446, 43449>>, <<43452, 43453>>,
    <<43471, 43471>>, <<43493, 43494>>, <<43561, 43566>>, <<43569, 43570>>,
    <<43573, 43574>>, <<43587, 43587>>, <<43596, 43596>>, <<43632, 43632>>,
    <<43644, 43644>>, <<43696, 43696>>, <<43698, 43700>>, <<43703, 43704>>,
    <<43710, 43711>>, <<43713, 43713>>, <<43741, 43741>>, <<43756, 43757>>,
    <<43763, 43764>>, <<43766, 43766>>, <<43867, 43871>>, <<43881, 43883>>,
    <<44005, 44005>>, <<44008, 44008>>, <<44013, 44013>>, <<64286, 64286>>,
    <<64434, 64450>>, <<65024, 65039>>, <<65043, 65043>>, <<65056, 65071>>,
    <<65106, 65106>>, <<65109, 65109>>, <<65279, 65279>>, <<65287, 65287>>,
    <<65294, 65294>>, <<65306, 65306>>, <<65342, 65342>>, <<65344, 65344>>,
    <<65392, 65392>>, <<65438, 65439>>, <<65507, 65507>>, <<65529, 65531>>,
    <<66045, 66045>>, <<66272, 66272>>, <<66422, 66426>>, <<67456, 67461>>,
    <<67463, 67504>>, <<67506, 67514>>, <<68097, 68099>>, <<68101, 68102>>,
    <<68108, 68111>>, <<68152, 68154>>, <<68159, 68159>>, <<68325, 68326>>,
    <<68900, 68903>>, <<69291, 69292>>, <<69446, 69456>>, <<69506, 69509>>,
    <<69633, 69633>>, <<69688, 69702>>, <<69744, 69744>>, <<69747, 69748>>,
    <<69759, 69761>>, <<69811, 69814>>, <<69817, 69818>>, <<69821, 69821>>,
    <<69826, 69826>>, <<69837, 69837>>, <<69888, 69890>>, <<69927, 69931>>,
    <<69933, 69940>>, <<70003, 70003>>, <<70016, 70017>>, <<70070, 70078>>,
    <<70089, 70092>>, <<70095, 70095>>, <<70191, 70193>>, <<70196, 70196>>,
    <<70198, 70199>>, <<70206, 70206>>, <<70367, 70367>>, <<70371, 70378>>,
    <<70400, 70401>>, <<70459, 70460>>, <<70464, 70464>>, <<70502, 70508>>,
    <<70512, 70516>>, <<70712, 70719>>, <<70722, 70724>>, <<70726, 70726>>,
    <<70750, 70750>>, <<70835, 70840>>, <<70842, 70842>>, <<70847, 70848>>,
    <<70850, 70851>>, <<71090, 71093>>, <<71100, 71101>>, <<71103, 71104>>,
    <<71132, 71133>>, <<71219, 71226>>, <<71229, 71229>>, <<71231, 71232>>,
    <<71339, 71339>>, <<71341, 71341>>, <<71344, 71349>>, <<71351, 71351>>,
    <<71453, 71455>>, <<71458, 71461>>, <<71463, 71467>>, <<71727, 71735>>,
    <<71737, 71738>>, <<71995, 71996>>, <<71998, 71998>>, <<72003, 72003>>,
    <<72148, 72151>>, <<72154, 72155>>, <<72160, 72160>>, <<72193, 72202>>,
    <<72243, 72248>>, <<72251, 72254>>, <<72263, 72263>>, <<72273, 72278>>,
    <<72281, 72283>>, <<72330, 72342>>, <<72344, 72345>>, <<72752, 72758>>,
    <<72760, 72765>>, <<72767, 72767>>, <<72850, 72871>>, <<72874, 72880>>,
    <<72882, 72883>>, <<72885, 72886>>, <<73009, 73014>>, <<73018, 73018>>,
    <<73020, 73021>>, <<73023, 73029>>, <<73031, 73031>>, <<73104, 73105>>,
    <<73109, 73109>>, <<73111, 73111>>, <<73459, 73460>>, <<78896, 78904>>,
    <<92912, 92916>>, <<92976, 92982>>, <<92992, 92995>>, <<94031, 94031>>,
    <<94095, 94111>>, <<94176, 94177>>, <<94179, 94180>>, <<110576, 110579>>,
    <<110581, 110587>>, <<110589, 110590>>, <<113821, 113822>>,
    <<113824, 113827>>, <<118528, 118573>>, <<118576, 118598>>,
    <<119143, 119145>>, <<119155, 119170>>, <<119173, 119179>>,
    <<119210, 119213>>, <<119362, 119364>>, <<121344, 121398>>,
    <<121403, 121452>>, <<121461, 121461>>, <<121476, 121476>>,
    <<121499, 121503>>, <<121505, 121519>>, <<122880, 122886>>,
    <<122888, 122904>>, <<122907, 122913>>, <<122915, 122916>>,
    <<122918, 122922>>, <<123184, 123197>>, <<123566, 123566>>,
    <<123628, 123631>>, <<125136, 125142>>, <<125252, 125259>>,
    <<127995, 127999>>, <<917505, 917505>>, <<917536, 917631>>,
    <<917760, 917999>> }
CaseIgnorable == CharsIn(CaseIgnorableRanges)

\* ... and the cased characters among the ones it does not skip.
CasedRanges ==
  { <<65, 90>>, <<97, 122>>, <<170, 170>>, <<181, 181>>, <<186, 186>>,
    <<192, 214>>, <<216, 246>>, <<248, 442>>, <<444, 447>>, <<452, 659>>,
    <<661, 687>>, <<880, 883>>, <<886, 887>>, <<891, 893>>, <<895, 895>>,
    <<902, 902>>, <<904, 906>>, <<908, 908>>, <<910, 929>>, <<931, 1013>>,
    <<1015, 1153>>, <<1162, 1327>>, <<1329, 1366>>, <<1376, 1416>>,
    <<4256, 4293>>, <<4295, 4295>>, <<4301, 4301>>, <<4304, 4346>>,
    <<4349, 4351>>, <<5024, 5109>>, <<5112, 5117>>, <<7296, 7304>>,
    <<7312, 7354>>, <<7357, 7359>>, <<7424, 7467>>, <<7531, 7543>>,
    <<7545, 7578>>, <<7680, 7957>>, <<7960, 7965>>, <<7968, 8005>>,
    <<8008, 8013>>, <<8016, 8023>>, <<8025, 8025>>, <<8027, 8027>>,
    <<8029, 8029>>, <<8031, 8061>>, <<8064, 8116>>, <<8118, 8124>>,
    <<8126, 8126>>, <<8130, 8132>>, <<8134, 8140>>, <<8144, 8147>>,
    <<8150, 8155>>, <<8160, 8172>>, <<8178, 8180>>, <<8182, 8188>>,
    <<8450, 8450>>, <<8455, 8455>>, <<8458, 8467>>, <<8469, 8469>>,
    <<8473, 8477>>, <<8484, 8484>>, <<8486, 8486>>, <<8488, 8488>>,
    <<8490, 8493>>, <<8495, 8500>>, <<8505, 8505>>, <<8508, 8511>>,
    <<8517, 8521>>, <<8526, 8526>>, <<8544, 8575>>, <<8579, 8580>>,
    <<9398, 9449>>, <<11264, 11387>>, <<11390, 11492>>, <<11499, 11502>>,
    <<11506, 11507>>, <<11520, 11557>>, <<11559, 11559>>, <<11565, 11565>>,
    <<42560, 42605>>, <<42624, 42651>>, <<42786, 42863>>, <<42865, 42887>>,
    <<42891, 42894>>, <<42896, 42954>>, <<42960, 42961>>, <<42963, 42963>>,
    <<42965, 42969>>, <<42997, 42998>>, <<43002, 43002>>, <<43824, 43866>>,
    <<43872, 43880>>, <<43888, 43967>>, <<64256, 64262>>, <<64275, 64279>>,
    <<65313, 65338>>, <<65345, 65370>>, <<66560, 66639>>, <<66736, 66771>>,
    <<66776, 66811>>, <<66928, 66938>>, <<66940, 66954>>, <<66956, 66962>>,
    <<66964, 66965>>, <<66967, 66977>>, <<66979, 66993>>, <<66995, 67001>>,
    <<67003, 67004>>, <<68736, 68786>>, <<68800, 68850>>, <<71840, 71903>>,
    <<93760, 93823>>, <<119808, 119892>>, <<119894, 119964>>,
    <<119966, 119967>>, <<119970, 119970>>, <<119973, 119974>>,
    <<119977, 119980>>, <<119982, 119993>>, <<119995, 119995>>,
    <<119997, 120003>>, <<120005, 120069>>, <<120071, 120074>>,
    <<120077, 120084>>, <<120086, 120092>>, <<120094, 120121>>,
    <<120123, 120126>>, <<120128, 120132>>, <<120134, 120134>>,
    <<120138, 120144>>, <<120146, 120485>>, <<120488, 120512>>,
    <<120514, 120538>>, <<120540, 120570>>, <<120572, 120596>>,
    <<120598, 120628>>, <<120630, 120654>>, <<120656, 120686>>,
    <<120688, 120712>>, <<120714, 120744>>, <<120746, 120770>>,
    <<120772, 120779>>, <<122624, 122633>>, <<122635, 122654>>,
    <<125184, 125251>>, <<127280, 127305>>, <<127312, 127337>>,
    <<127344, 127369>> }
Cased == CharsIn(CasedRanges)

\* A capital sigma at index i is in final position when the nearest
\* character before it that is not case-ignorable is cased and the nearest
\* such character after it, if any, is not.  `kept` holds the indices of the
\* characters that are not case-ignorable, `cased` those of the cased ones.
FinalAmong(i, kept, cased) ==
  LET before == { j \in kept : j < i }
      after  == { j \in kept : j > i }
  IN  /\ before # { }
      /\ Max(before) \in cased
      /\ after # { } => Min(after) \notin cased

IsFinalSigma(s, i) ==
  FinalAmong(i, { j \in 1..Len(s) : s[j] \notin CaseIgnorable },
                { j \in 1..Len(s) : s[j] \in Cased })

\* f[c] as a str where f is defined, the character itself elsewhere
Image(f, c) == IF c \in DOMAIN f THEN f[c] ELSE << c >>

\* the lower form of the character of s at index i, as a str
lower_char(s, i) ==
  IF s[i] = Sigma /\ IsFinalSigma(s, i) THEN << FinalSigma >>
  ELSE Image(LowerMap, s[i])

\* "".join(parts) for a list of str, from index start on: a str longer than
\* the list where a part has two characters
RECURSIVE concat(_, _)
concat(parts, start) ==
  LET stop == First({ i \in start..Len(parts) : Len(parts[i]) # 1 })
  IN  IF stop = 0
      THEN [ i \in 1..(Len(parts) - start + 1) |-> parts[start + i - 1][1] ]
      ELSE [ i \in 1..(stop - start) |-> parts[start + i - 1][1] ]
           \o parts[stop] \o concat(parts, stop + 1)

\* str.lower()
lower(s) == concat([ i \in 1..Len(s) |-> lower_char(s, i) ], 1)

IsSpace(c) == c \in Whitespace
IsDigit(c) == c \in Digits

\* k occurs in s at index i
MatchesAt(s, k, i) ==
  /\ i + Len(k) - 1 <= Len(s)
  /\ s[i] = k[1]
  /\ \A j \in 2..Len(k) : s[i + j - 1] = k[j]

\* `k in s` for two str
Contains(s, k) == \E i \in 1..(Len(s) - Len(k) + 1) : MatchesAt(s, k, i)

\* any(k in s for k in keywords)
any_keyword(s, keywords) == \E n \in 1..Len(keywords) : Contains(s, keywords[n])

\* the index after the run of whitespace that starts at i
RECURSIVE SpacesEnd(_, _)
SpacesEnd(s, i) == IF i <= Len(s) /\ IsSpace(s[i]) THEN SpacesEnd(s, i + 1) ELSE i

\* the index before the run of whitespace that ends at i
RECURSIVE SpacesStart(_, _)
SpacesStart(s, i) == IF i >= 1 /\ IsSpace(s[i]) THEN SpacesStart(s, i - 1) ELSE i

\* strip() left out: the str as it is
strip_omitted(s) == s

\* str.strip(): without the leading and trailing whitespace
strip(s) == SubSeq(s, SpacesEnd(s, 1), SpacesStart(s, Len(s)))

\* ", ".join(names) for a list of names
RECURSIVE join(_)
join(names) ==
  IF names = << >> THEN ""
  ELSE IF Len(names) = 1 THEN names[1]
  ELSE names[1] \o ", " \o join(Tail(names))

(***************************************************************************)
(* classify_contract                                                       *)
(***************************************************************************)
rules ==
  << [name |-> "Employment Agreement", keywords |-> <<
        <<"e", "m", "p", "l", "o", "y", "e", "e">>,
        <<"e", "m", "p", "l", "o", "y", "e", "r">>,
        <<"s", "a", "l", "a", "r", "y">> >>],
     [name |-> "Lease Agreement", keywords |-> <<
        <<"l", "e", "a", "s", "e">>,
        <<"r", "e", "n", "t">>,
        <<"p", "r", "e", "m", "i", "s", "e", "s">> >>],
     [name |-> "Service Contract", keywords |-> <<
        <<"s", "e", "r", "v", "i", "c", "e">>,
        <<"d", "e", "l", "i", "v", "e", "r", "a", "b", "l", "e", "s">> >>],
     [name |-> "Vendor Agreement", keywords |-> <<
        <<"v", "e", "n", "d", "o", "r">>,
        <<"s", "u", "p", "p", "l", "i", "e", "r">> >>] >>

GeneralLabel == "General Commercial Contract"

\* the loop over rules.items(), from group g on, over the lower-cased text t
RECURSIVE classify_from(_, _)
classify_from(t, g) ==
  IF g > Len(rules) THEN GeneralLabel
  ELSE IF any_keyword(t, rules[g].keywords) THEN rules[g].name
  ELSE classify_from(t, g + 1)

\* the keywords searched in the text as typed, lower() forgotten
classify_contract_cased(txt) == classify_from(txt, 1)

classify_contract(txt) == classify_from(lower(txt), 1)

(***************************************************************************)
(* extract_clauses                                                         *)
(***************************************************************************)
ClauseMinLen == 30

\* The pattern \n|\.\s+ tried at index i: the index after the match, 0 when it
\* does not match there. \s+ is greedy and nothing follows it.
SeparatorEnd(s, i) ==
  IF s[i] = "\n" THEN i + 1
  ELSE IF s[i] = "." /\ i < Len(s) /\ IsSpace(s[i + 1]) THEN SpacesEnd(s, i + 1)
  ELSE 0

\* the first index from i on where the separator pattern matches, 0 when none
NextSeparator(s, i) == First({ j \in i..Len(s) : SeparatorEnd(s, j) # 0 })

\* re.split(pattern, s): the pieces between the matches, left to right, from
\* the piece that starts at `start`
RECURSIVE re_split(_, _)
re_split(s, start) ==
  LET m == NextSeparator(s, start)
  IN  IF m = 0 THEN << SubSeq(s, start, Len(s)) >>
      ELSE << SubSeq(s, start, m - 1) >> \o re_split(s, SeparatorEnd(s, m))

KeepsClause(c) == Len(strip(c)) > ClauseMinLen

extract_clauses(txt) ==
  LET pieces == SelectSeq(re_split(txt, 1), KeepsClause)
  IN  [ i \in 1..Len(pieces) |-> strip(pieces[i]) ]

(***************************************************************************)
(* extract_entities                                                        *)
(***************************************************************************)
Rupee == "U+20B9"
Units == << <<"l", "a", "k", "h">>, <<"l", "a", "k", "h", "s">>,
            <<"c", "r", "o", "r", "e">>, <<"c", "r", "o", "r", "e", "s">> >>
Places == << <<"i", "n", "d", "i", "a">>,
             <<"t", "a", "m", "i", "l", " ", "n", "a", "d", "u">>,
             <<"d", "e", "l", "h", "i">>, <<"m", "u", "m", "b", "a", "i">> >>

\* \d+ at i, greedy: the index after the digits (i when there is none)
RECURSIVE DigitsEnd(_, _)
DigitsEnd(s, i) == IF i <= Len(s) /\ IsDigit(s[i]) THEN DigitsEnd(s, i + 1) ELSE i

HasDigitAt(s, i) == i <= Len(s) /\ IsDigit(s[i])

\* a pattern without the (?:,\d+)* groups
GroupsEnd_none(s, i) == i

\* (?:,\d+)* at i, greedy
RECURSIVE GroupsEnd(_, _)
GroupsEnd(s, i) ==
  IF i <= Len(s) /\ s[i] = "," /\ HasDigitAt(s, i + 1)
  THEN GroupsEnd(s, DigitsEnd(s, i + 1))
  ELSE i

\* (?:\.\d+)? at i, greedy
FractionEnd(s, i) ==
  IF i <= Len(s) /\ s[i] = "." /\ HasDigitAt(s, i + 1) THEN DigitsEnd(s, i + 1) ELSE i

\* \s? at i, greedy
OptSpaceEnd(s, i) == IF i <= Len(s) /\ IsSpace(s[i]) THEN i + 1 ELSE i

\* the first of the alternatives in `words`, in their order, that occurs at i:
\* the index after it, 0 when none does
RECURSIVE WordEnd(_, _, _, _)
WordEnd(s, i, words, n) ==
  IF n > Len(words) THEN 0
  ELSE IF MatchesAt(s, words[n], i) THEN i + Len(words[n])
  ELSE WordEnd(s, i, words, n + 1)

\* first alternative of amount_pattern:  rupee \s? \d+ (?:,\d+)* (?:\.\d+)?
RupeeAmountEnd(s, i) ==
  IF s[i] # Rupee THEN 0
  ELSE LET j == OptSpaceEnd(s, i + 1)
       IN  IF HasDigitAt(s, j) THEN FractionEnd(s, GroupsEnd(s, DigitsEnd(s, j))) ELSE 0

\* second alternative:  \d+ (?:\.\d+)? \s? (?:lakh|lakhs|crore|crores)
UnitAmountEnd(s, i) ==
  IF ~HasDigitAt(s, i) THEN 0
  ELSE WordEnd(s, OptSpaceEnd(s, FractionEnd(s, DigitsEnd(s, i))), Units, 1)

\* \d{1,2} at i followed by "/": the index after the "/", 0 when no match
DayEnd(s, i) ==
  IF ~HasDigitAt(s, i) THEN 0
  ELSE IF i + 1 <= Len(s) /\ s[i + 1] = "/" THEN i + 2
  ELSE IF HasDigitAt(s, i + 1) /\ i + 2 <= Len(s) /\ s[i + 2] = "/" THEN i + 3
  ELSE 0

\* \d{1,2}/\d{1,2}/\d{4}
DateEnd(s, i) ==
  LET m == DayEnd(s, i)
      y == IF m = 0 THEN 0 ELSE DayEnd(s, m)
  IN  IF y = 0 THEN 0
      ELSE IF \A k \in 0..3 : HasDigitAt(s, y + k) THEN y + 4 ELSE 0

\* one of the three patterns tried at index i: the index after its match, or 0
PatternEnd(pattern, s, i) ==
  CASE pattern = "Amounts" ->
         LET a == RupeeAmountEnd(s, i) IN IF a # 0 THEN a ELSE UnitAmountEnd(s, i)
    [] pattern = "Dates" -> DateEnd(s, i)
    [] pattern = "Jurisdiction" -> WordEnd(s, i, Places, 1)

\* the first index from i on where the pattern matches, 0 when none
NextMatch(pattern, s, i) ==
  First({ j \in i..Len(s) : PatternEnd(pattern, s, j) # 0 })

\* re.findall(pattern, s): the non-overlapping matches, left to right, from
\* index i on
RECURSIVE findall(_, _, _)
findall(pattern, s, i) ==
  LET m == NextMatch(pattern, s, i)
  IN  IF m = 0 THEN << >>
      ELSE << SubSeq(s, m, PatternEnd(pattern, s, m) - 1) >>
           \o findall(pattern, s, PatternEnd(pattern, s, m))

extract_entities(txt) ==
  [ Amounts      |-> findall("Amounts", lower(txt), 1),
    Dates        |-> findall("Dates", txt, 1),
    Jurisdiction |-> findall("Jurisdiction", lower(txt), 1) ]

(***************************************************************************)
(* classify_clause_type                                                    *)
(***************************************************************************)
ProhibitionWords == << <<"s", "h", "a", "l", "l", " ", "n", "o", "t">>,
                       <<"m", "u", "s", "t", " ", "n", "o", "t">>,
                       <<"p", "r", "o", "h", "i", "b", "i", "t", "e", "d">> >>
ObligationWords == << <<"s", "h", "a", "l", "l">>, <<"m", "u", "s", "t">> >>
RightWords == << <<"m", "a", "y">>, <<"c", "a", "n">> >>

\* the Obligation test made before the Prohibition test
classify_clause_type_swapped(clause) ==
  LET c == lower(clause)
  IN  IF any_keyword(c, ObligationWords) THEN "Obligation"
      ELSE IF any_keyword(c, ProhibitionWords) THEN "Prohibition"
      ELSE IF any_keyword(c, RightWords) THEN "Right"
      ELSE "Neutral"

classify_clause_type(clause) ==
  LET c == lower(clause)
  IN  IF any_keyword(c, ProhibitionWords) THEN "Prohibition"
      ELSE IF any_keyword(c, ObligationWords) THEN "Obligation"
      ELSE IF any_keyword(c, RightWords) THEN "Right"
      ELSE "Neutral"

(***************************************************************************)
(* The risk engine                                                         *)
(***************************************************************************)
RISK_MAP ==
  << [name |-> "Penalty Clause", keywords |-> <<
        <<"p", "e", "n", "a", "l", "t", "y">>,
        <<"f", "i", "n", "e">>,
        <<"U+0926", "U+0902", "U+0921">>,
        <<"U+091C", "U+0941", "U+0930", "U+094D", "U+092E", "U+093E", "U+0928", "U+093E">> >>],
     [name |-> "Indemnity Clause", keywords |-> <<
        <<"i", "n", "d", "e", "m", "n", "i", "f", "y">>,
        <<"i", "n", "d", "e", "m", "n", "i", "t", "y">>,
        <<"U+0915", "U+094D", "U+0937", "U+0924", "U+093F", "U+092A", "U+0942", "U+0930", "U+094D", "U+0924", "U+093F">> >>],
     [name |-> "Termination Risk", keywords |-> <<
        <<"t", "e", "r", "m", "i", "n", "a", "t", "e">>,
        <<"t", "e", "r", "m", "i", "n", "a", "t", "i", "o", "n">>,
        <<"U+0938", "U+092E", "U+093E", "U+092A", "U+094D", "U+0924">> >>],
     [name |-> "Non-Compete Clause", keywords |-> <<
        <<"n", "o", "n", " ", "c", "o", "m", "p", "e", "t", "e">>,
        <<"n", "o", "n", "-", "c", "o", "m", "p", "e", "t", "e">>,
        <<"U+092A", "U+094D", "U+0930", "U+0924", "U+093F", "U+0938", "U+094D", "U+092A", "U+0930", "U+094D", "U+0927", "U+093E">> >>],
     [name |-> "IP Transfer", keywords |-> <<
        <<"i", "n", "t", "e", "l", "l", "e", "c", "t", "u", "a", "l", " ", "p", "r", "o", "p", "e", "r", "t", "y">>,
        <<"i", "p", " ", "r", "i", "g", "h", "t", "s">>,
        <<"U+092C", "U+094C", "U+0926", "U+094D", "U+0927", "U+093F", "U+0915", " ", "U+0938", "U+0902", "U+092A", "U+0926", "U+093E">> >>],
     [name |-> "Unilateral Rights", keywords |-> <<
        <<"w", "i", "t", "h", "o", "u", "t", " ", "n", "o", "t", "i", "c", "e">>,
        <<"s", "o", "l", "e", " ", "d", "i", "s", "c", "r", "e", "t", "i", "o", "n">>,
        <<"U+092C", "U+093F", "U+0928", "U+093E", " ", "U+0938", "U+0942", "U+091A", "U+0928", "U+093E">> >>] >>

\* the loop over RISK_MAP.items(), from category g on
RECURSIVE risks_from(_, _)
risks_from(c, g) ==
  IF g > Len(RISK_MAP) THEN << >>
  ELSE (IF any_keyword(c, RISK_MAP[g].keywords)
        THEN << RISK_MAP[g].name >> ELSE << >>) \o risks_from(c, g + 1)

\* clause.lower() gives the same str in every pass
detect_risks(clause) == risks_from(lower(clause), 1)

\* the Medium boundary off by one
risk_level_strict(score) ==
  IF score = 0 THEN "Low"
  ELSE IF score < 2 THEN "Medium"
  ELSE "High"

risk_level(score) ==
  IF score = 0 THEN "Low"
  ELSE IF score <= 2 THEN "Medium"
  ELSE "High"

explain(risks) ==
  IF risks = << >>
  THEN "This clause appears balanced and does not pose significant legal risk."
  ELSE "This clause may expose the business to legal risk due to: " \o join(risks)

mitigation(risks) ==
  IF risks = << >>
  THEN "No immediate mitigation required."
  ELSE "Consider renegotiating this clause to ensure mutual obligations, "
       \o "clear limits on liability, and fair termination conditions."

(***************************************************************************)
(* The audit log                                                           *)
(***************************************************************************)
\* audit_log.json is modelled by the document it holds and by its size in
\* bytes: `kind` is the JSON document's type, "garbage" when the bytes are
\* text that is no JSON document (which includes the empty file) and "binary"
\* when the bytes are no UTF-8 text; `items` are the document's elements (an
\* array's entries, an object's keys, a string's characters).
NoFile == [ exists |-> FALSE, kind |-> "none", items |-> << >>, bytes |-> 0 ]

\* open(AUDIT_FILE, "w"): the file exists and is empty
Truncated == [ exists |-> TRUE, kind |-> "garbage", items |-> << >>, bytes |-> 0 ]

\* the bytes json.dump(..., indent=2) writes for one entry, without the comma
\* and the line break that separate entries: four lines, the 19 characters of
\* the timestamp, the action
EntryBytes(e) == 64 + Len(e.action)

RECURSIVE EntriesBytes(_)
EntriesBytes(lst) ==
  IF lst = << >> THEN 0 ELSE EntryBytes(Head(lst)) + EntriesBytes(Tail(lst))

\* the bytes json.dump(lst, f, indent=2) writes: "[]" for the empty list, else
\* the entries, each on lines of its own, between "[" and "]"
ByteLen(lst) == IF lst = << >> THEN 2 ELSE EntriesBytes(lst) + 2 * Len(lst) + 2

\* only the newest entry written
json_dump_last(lst) ==
  [ exists |-> TRUE, kind |-> "array", items |-> << lst[Len(lst)] >>,
    bytes |-> ByteLen(<< lst[Len(lst)] >>) ]

\* json.dump(logs, f) into an empty file: the file holds the array
json_dump(lst) ==
  [ exists |-> TRUE, kind |-> "array", items |-> lst, bytes |-> ByteLen(lst) ]

\* Line 33 on the handle line 32 opened: the text is written from the start
\* of the file as the file is when the handle is closed (the logs modelled
\* stay far below the size of the write buffer, so the text reaches the file
\* in one write). A file that another session has filled since with a longer
\* text keeps the end of that text after the array, and is no JSON document.
dump_over(f, lst) ==
  IF f.bytes <= ByteLen(lst) THEN json_dump(lst)
  ELSE [ exists |-> TRUE, kind |-> "garbage", items |-> << >>, bytes |-> f.bytes ]

\* json.load(f) on a file opened in text mode: the value, or the exception
\* raised by the decoding of the bytes or by the parsing of the text
json_load(f) ==
  IF f.kind = "binary"
  THEN [ error |-> "UnicodeDecodeError", kind |-> "none", items |-> << >> ]
  ELSE IF f.kind = "garbage"
  THEN [ error |-> "JSONDecodeError", kind |-> "none", items |-> << >> ]
  ELSE [ error |-> "", kind |-> f.kind, items |-> f.items ]

\* the dict `entry`; strftime's text is modelled by the second it formats
new_entry(action, t) == [ timestamp |-> t, action |-> action ]

\* the file never read: `logs` starts empty at every call
audit_read_fresh(f, e) == [ error |-> "", logs |-> << e >> ]

\* Lines 25-30 of audit(): `logs` after logs.append(entry), or the exception.
\* Only a list has .append.
audit_read(f, e) ==
  IF ~f.exists THEN [ error |-> "", logs |-> << e >> ]
  ELSE LET v == json_load(f)
       IN  IF v.error # "" THEN [ error |-> v.error, logs |-> << >> ]
           ELSE IF v.kind # "array" THEN [ error |-> "AttributeError", logs |-> << >> ]
           ELSE [ error |-> "", logs |-> Append(v.items, e) ]

(***************************************************************************)
(* The page: text area, Analyze Contract, View Audit Log                   *)
(***************************************************************************)
\* the sample contract used by the end-to-end scenario (four lines, no blank line around)
ScenarioText ==
  << "T", "h", "e", " ", "e", "m", "p", "l", "o", "y", "e", "e", " ", "s", "h", "a", "l", "l",
     " ", "i", "n", "d", "e", "m", "n", "i", "f", "y", " ", "t", "h", "e", " ", "c", "o", "m",
     "p", "a", "n", "y", ".", "\n", "T", "h", "e", " ", "c", "o", "m", "p", "a", "n", "y", " ",
     "m", "a", "y", " ", "t", "e", "r", "m", "i", "n", "a", "t", "e", " ", "t", "h", "e", " ",
     "a", "g", "r", "e", "e", "m", "e", "n", "t", " ", "w", "i", "t", "h", "o", "u", "t", " ",
     "n", "o", "t", "i", "c", "e", ".", "\n", "A", " ", "p", "e", "n", "a", "l", "t", "y", " ",
     "o", "f", " ", "U+20B9", "1", ",", "0", "0", ",", "0", "0", "0", " ", "a", "p", "p", "l",
     "i", "e", "s", " ", "f", "o", "r", " ", "b", "r", "e", "a", "c", "h", ".", "\n", "T", "h",
     "e", " ", "e", "m", "p", "l", "o", "y", "e", "e", " ", "s", "h", "a", "l", "l", " ", "n",
     "o", "t", " ", "c", "o", "m", "p", "e", "t", "e", " ", "f", "o", "r", " ", "t", "w", "o",
     " ", "y", "e", "a", "r", "s", "." >>

\* the text area's initial value: the same four lines inside a triple-quoted
\* string, so with a newline before and after
DefaultText == << "\n" >> \o ScenarioText \o << "\n" >>

\* a text none of whose fragments is longer than ClauseMinLen; its amount
\* has a no-break space and a Kelvin sign for the k of lakhs, its date
\* Devanagari digits
ShortText ==
  << "S", "h", "o", "r", "t", " ", "n", "o", "t", "i", "c", "e", ".", " ", "T", "h", "e", " ",
     "V", "e", "n", "d", "o", "r", " ", "m", "a", "y", " ", "p", "a", "y", " ", "5", "U+00A0",
     "l", "a", "U+212A", "h", "s", ".", "\n", "D", "e", "l", "h", "i", ",", " ", "U+0967", "/",
     "U+0968", "/", "U+0968", "U+0966", "U+0968", "U+096B" >>

\* the texts a user submits in the page model: the default text, and a text
\* without a clause
TextInputs == { DefaultText, ShortText }

RECURSIVE sum(_)
sum(s) == IF s = << >> THEN 0 ELSE Head(s) + sum(Tail(s))

\* for total > 0, the e with 2^e <= total / n < 2^(e + 1)
RECURSIVE Exponent(_, _)
Exponent(total, n) ==
  IF total >= 2 * n THEN Exponent(total, 2 * n) + 1
  ELSE IF total < n THEN Exponent(2 * total, n) - 1
  ELSE 0

\* r * 2^k modulo m
RECURSIVE Doubled(_, _, _)
Doubled(r, k, m) == IF k = 0 THEN r ELSE Doubled((2 * r) % m, k - 1, m)

\* total / n is a float: the double nearest the quotient, of 53 significant
\* bits, ties to the even one. The sign of that double minus the quotient
\* (n > 0): the quotient counted in units of the last of the 53 bits is
\* total * 2^(52 - e) / n.
float_error(total, n) ==
  IF total = 0 THEN 0
  ELSE LET m == Doubled(total % (2 * n), 52 - Exponent(total, n), 2 * n)
       IN  IF m % n = 0 THEN 0
           ELSE IF 2 * (m % n) < n THEN -1
           ELSE IF 2 * (m % n) > n THEN 1
           ELSE IF m \div n = 0 THEN -1 ELSE 1

\* round(total / n, 2) in hundredths (n > 0): round() rounds the double, so a
\* quotient halfway between two hundredths goes to the side its double lies
\* on, and to the even hundredth when the double is the quotient
round2(total, n) ==
  LET q == (100 * total) \div n
      r == (100 * total) % n
      up == IF 2 * r # n THEN 2 * r > n
            ELSE IF float_error(total, n) # 0 THEN float_error(total, n) > 0
            ELSE q % 2 = 1
  IN  IF up THEN q + 1 ELSE q

\* the score of an empty list of scores left undefined, without an exception
composite_score_guarded(s) ==
  IF s = << >> THEN [ error |-> "", defined |-> FALSE, hundredths |-> 0 ]
  ELSE [ error |-> "", defined |-> TRUE, hundredths |-> round2(sum(s), Len(s)) ]

\* line 199: the composite score, or the exception of the division by
\* len(scores) = 0
composite_score(s) ==
  IF s = << >> THEN [ error |-> "ZeroDivisionError", defined |-> FALSE, hundredths |-> 0 ]
  ELSE [ error |-> "", defined |-> TRUE, hundredths |-> round2(sum(s), Len(s)) ]

\* one pass of the `for c in clauses` loop
clause_result(c) ==
  LET risks == detect_risks(c)
  IN  [ type        |-> classify_clause_type(c),
        risks       |-> risks,
        score       |-> Len(risks),
        level       |-> risk_level(Len(risks)),
        explanation |-> explain(risks),
        mitigation  |-> mitigation(risks) ]

\* lines 180-197 of the Analyze handler
analysis(txt) ==
  LET cs == extract_clauses(txt)
      rs == [ i \in 1..Len(cs) |-> clause_result(cs[i]) ]
  IN  [ clauses       |-> cs,
        contract_type |-> classify_contract(txt),
        entities      |-> extract_entities(txt),
        results       |-> rs,
        scores        |-> [ i \in 1..Len(cs) |-> rs[i].score ] ]

\* the analysis of each text of the page model
AnalysisOf == [ t \in TextInputs |-> analysis(t) ]

NoEntities == [ Amounts |-> << >>, Dates |-> << >>, Jurisdiction |-> << >> ]
Undefined == [ defined |-> FALSE, hundredths |-> 0 ]

\* what a run of the script shows: the handler run, the exception that ended
\* it ("" when none), the status message, the audit lines written, whether the
\* download button is offered, and the audit file as the run found it and as
\* the run's last read or write of it left it
Page(handler, error, message, lines, download, before, after) ==
  [ handler |-> handler, error |-> error, message |-> message,
    lines |-> lines, download |-> download, fileBefore |-> before,
    fileAfter |-> after ]

BlankPage == Page("none", "", "", << >>, FALSE, NoFile, NoFile)

\* Streamlit runs the script of each browser session in a thread of its own;
\* the sessions share audit_log.json and nothing else
Sessions == { 1, 2 }
NoEntry == new_entry("", 0)

\* the session's script run is under way
Running(p) == pc[p] # "idle"

\* the session is between its read of the file and the end of its write
Writing(p) == pc[p] \in { "loaded", "opened" }

\* a session ended its last script run in the handler h
Finished(p, h) == pc[p] = "idle" /\ ui[p].handler = h

\* The schedule so far: "sequential" as long as every Analyze run ended before
\* the next started, "overlapped" once one started while another session's
\* was under way, "raced" once a session read the file inside audit() while
\* another was between its read and the end of its write.
Overlapped(p) ==
  IF schedule = "sequential" /\ \E q \in Sessions \ { p } : Running(q)
  THEN "overlapped" ELSE schedule

Raced(p) ==
  IF \E q \in Sessions \ { p } : Writing(q) THEN "raced" ELSE schedule

AnalysisVars == << clauses, contract_type, entities, results, scores,
                   composite_risk, resegmented >>

\* a rerun of the script starts without the names the last run bound
NoAnalysis(p) ==
  /\ clauses' = [ clauses EXCEPT ![p] = << >> ]
  /\ contract_type' = [ contract_type EXCEPT ![p] = "" ]
  /\ entities' = [ entities EXCEPT ![p] = NoEntities ]
  /\ results' = [ results EXCEPT ![p] = << >> ]
  /\ scores' = [ scores EXCEPT ![p] = << >> ]
  /\ composite_risk' = [ composite_risk EXCEPT ![p] = Undefined ]
  /\ resegmented' = [ resegmented EXCEPT ![p] = << >> ]

InitPage ==
  /\ now = 0
  /\ schedule = "sequential"
  /\ lastWriter = 0
  /\ ui = [ p \in Sessions |-> BlankPage ]
  /\ clauses = [ p \in Sessions |-> << >> ]
  /\ contract_type = [ p \in Sessions |-> "" ]
  /\ entities = [ p \in Sessions |-> NoEntities ]
  /\ results = [ p \in Sessions |-> << >> ]
  /\ scores = [ p \in Sessions |-> << >> ]
  /\ composite_risk = [ p \in Sessions |-> Undefined ]
  /\ resegmented = [ p \in Sessions |-> << >> ]
  /\ pc = [ p \in Sessions |-> "idle" ]
  /\ logs = [ p \in Sessions |-> << >> ]
  /\ entry = [ p \in Sessions |-> NoEntry ]
  /\ presses = 0

\* the state after each session's first script run: the default text, no
\* audit file
Init ==
  /\ InitPage
  /\ text = [ p \in Sessions |-> DefaultText ]
  /\ file = NoFile
  /\ history = << >>

MaxClock == 1
MaxPresses == 2

\* "Analyze Contract" pressed on the text t, at the second u: line 177, and
\* line 178 as far as lines 20-23 of audit(), where the entry is built from
\* the clock
AnalyzePress(p) ==
  /\ pc[p] = "idle"
  /\ presses < MaxPresses
  /\ presses' = presses + 1
  /\ \E t \in TextInputs : text' = [ text EXCEPT ![p] = t ]
  /\ \E u \in now..MaxClock :
       /\ now' = u
       /\ entry' = [ entry EXCEPT ![p] = new_entry("Contract analyzed", u) ]
  /\ pc' = [ pc EXCEPT ![p] = "called" ]
  /\ ui' = [ ui EXCEPT ![p] = Page("Analyze", "", "", << >>, FALSE, file, file) ]
  /\ NoAnalysis(p)
  /\ schedule' = Overlapped(p)
  /\ UNCHANGED << file, history, lastWriter, logs >>

\* the file as the session's Analyze run found it: the file its first call of
\* audit() read
FoundBy(p) ==
  IF entry[p].action = "Contract analyzed" THEN file ELSE ui[p].fileBefore

\* lines 25-30: the session reads the file and appends to its own list; an
\* exception ends the script run
AuditRead(p) ==
  /\ pc[p] = "called"
  /\ \E r \in { audit_read(file, entry[p]) } :
       /\ logs' = [ logs EXCEPT ![p] = r.logs ]
       /\ IF r.error = ""
          THEN /\ pc' = [ pc EXCEPT ![p] = "loaded" ]
               /\ history' = Append(history, entry[p])
               /\ ui' = [ ui EXCEPT ![p].fileBefore = FoundBy(p), ![p].fileAfter = file ]
          ELSE /\ pc' = [ pc EXCEPT ![p] = "idle" ]
               /\ history' = history
               /\ ui' = [ ui EXCEPT ![p].error = r.error,
                                    ![p].fileBefore = FoundBy(p),
                                    ![p].fileAfter = file ]
  /\ schedule' = Raced(p)
  /\ UNCHANGED << presses, file, now, lastWriter, text, AnalysisVars, entry >>

\* line 32: open(AUDIT_FILE, "w") empties the file
AuditOpen(p) ==
  /\ pc[p] = "loaded"
  /\ file' = Truncated
  /\ pc' = [ pc EXCEPT ![p] = "opened" ]
  /\ UNCHANGED << presses, now, history, schedule, lastWriter, text, ui, AnalysisVars,
                  logs, entry >>

\* line 33 and the end of the `with` block: the session's list is written and
\* the file closed. After the first audit the handler goes on; after the
\* second, lines 226-231 offer the download and the script run ends.
AuditDump(p) ==
  /\ pc[p] = "opened"
  /\ file' = dump_over(file, logs[p])
  /\ lastWriter' = p
  /\ IF entry[p].action = "Contract analyzed"
     THEN /\ pc' = [ pc EXCEPT ![p] = "audited" ]
          /\ ui' = [ ui EXCEPT ![p].fileAfter = file' ]
     ELSE /\ pc' = [ pc EXCEPT ![p] = "idle" ]
          /\ ui' = [ ui EXCEPT ![p].download = TRUE, ![p].fileAfter = file' ]
  /\ UNCHANGED << presses, now, history, schedule, text, AnalysisVars, logs, entry >>

\* lines 180-223, and line 224 as far as lines 20-23 of audit(): the
\* analysis of the text, the composite score (an exception ends the script
\* run), the page rendered, the report built, the second entry built from
\* the clock at the second u
AnalyzeBody(p) ==
  /\ pc[p] = "audited"
  /\ \E an \in { AnalysisOf[text[p]] } :
       /\ clauses' = [ clauses EXCEPT ![p] = an.clauses ]
       /\ contract_type' = [ contract_type EXCEPT ![p] = an.contract_type ]
       /\ entities' = [ entities EXCEPT ![p] = an.entities ]
       /\ results' = [ results EXCEPT ![p] = an.results ]
       /\ scores' = [ scores EXCEPT ![p] = an.scores ]
       /\ \E c \in { composite_score(an.scores) } :
            /\ composite_risk' =
                 [ composite_risk EXCEPT
                     ![p] = [ defined |-> c.defined, hundredths |-> c.hundredths ] ]
            /\ IF c.error # ""
               THEN /\ pc' = [ pc EXCEPT ![p] = "idle" ]
                    /\ ui' = [ ui EXCEPT ![p].error = c.error ]
                    /\ UNCHANGED << now, entry >>
               ELSE /\ pc' = [ pc EXCEPT ![p] = "called" ]
                    /\ ui' = [ ui EXCEPT ![p].message = "Analysis Completed Successfully" ]
                    /\ \E u \in now..MaxClock :
                         /\ now' = u
                         /\ entry' = [ entry EXCEPT ![p] = new_entry("PDF report generated", u) ]
  /\ UNCHANGED << presses, file, history, schedule, lastWriter, text, resegmented, logs >>

\* what lines 238-244 show of the file f
view(f) ==
  IF ~f.exists THEN Page("View", "", "No audit logs available.", << >>, FALSE, f, f)
  ELSE LET v == json_load(f)
       IN  IF v.error # "" THEN Page("View", v.error, "", << >>, FALSE, f, f)
           ELSE IF v.kind = "array" THEN Page("View", "", "", v.items, FALSE, f, f)
           ELSE IF v.kind \in { "object", "string" } /\ v.items = << >>
           THEN \* the for loop over an empty dict or str runs no pass
                Page("View", "", "", << >>, FALSE, f, f)
           ELSE \* a key or a character indexed by 'timestamp', or a value
                \* that cannot be iterated
                Page("View", "TypeError", "", << >>, FALSE, f, f)

\* "View Audit Log" pressed: lines 237-244, which read the file once
ViewAuditLog(p) ==
  /\ pc[p] = "idle"
  /\ presses < MaxPresses
  /\ presses' = presses + 1
  /\ ui' = [ ui EXCEPT ![p] = view(file) ]
  /\ NoAnalysis(p)
  /\ UNCHANGED << file, now, history, schedule, lastWriter, text, pc, logs, entry >>

Next ==
  \/ \E p \in Sessions : AnalyzePress(p)
  \/ \E p \in Sessions : AuditRead(p)
  \/ \E p \in Sessions : AuditOpen(p)
  \/ \E p \in Sessions : AuditDump(p)
  \/ \E p \in Sessions : AnalyzeBody(p)
  \/ \E p \in Sessions : ViewAuditLog(p)

Spec == Init /\ [][Next]_vars

(***************************************************************************)
(* A corrupted audit file: the page started on a file that is no array     *)
(***************************************************************************)
\* what audit_log.json may hold when it is not an array of entries: no byte,
\* the text `not json`, the bytes ff fe, {}, {"log": 1}, "", "log", 1, null
InvalidFiles ==
  { [ exists |-> TRUE, kind |-> "garbage", items |-> << >>, bytes |-> 0 ],
    [ exists |-> TRUE, kind |-> "garbage", items |-> << >>, bytes |-> 8 ],
    [ exists |-> TRUE, kind |-> "binary", items |-> << >>, bytes |-> 2 ],
    [ exists |-> TRUE, kind |-> "object", items |-> << >>, bytes |-> 2 ],
    [ exists |-> TRUE, kind |-> "object", items |-> << "log" >>, bytes |-> 10 ],
    [ exists |-> TRUE, kind |-> "string", items |-> << >>, bytes |-> 2 ],
    [ exists |-> TRUE, kind |-> "string", items |-> << "l", "o", "g" >>, bytes |-> 5 ],
    [ exists |-> TRUE, kind |-> "number", items |-> << >>, bytes |-> 1 ],
    [ exists |-> TRUE, kind |-> "null", items |-> << >>, bytes |-> 4 ] }

\* the page started on an invalid file, or on no file
InitCorrupt ==
  /\ InitPage
  /\ text = [ p \in Sessions |-> DefaultText ]
  /\ file \in InvalidFiles \cup { NoFile }
  /\ history = << >>

SpecCorrupt == InitCorrupt /\ [][Next]_vars

(***************************************************************************)
(* The text functions on composed texts                                    *)
(***************************************************************************)
\* a prohibition in a service contract; two risk categories
TokProhibition ==
  << "S", "e", "r", "v", "i", "c", "e", " ", "S", "H", "A", "L", "L", " ", "N", "O", "T", ":",
     " ", "n", "o", "n", "-", "c", "o", "m", "p", "e", "t", "e", ",", " ", "I", "P", " ", "r",
     "i", "g", "h", "t", "s" >>

\* a right of a vendor; three other risk categories
TokRight ==
  << "V", "e", "n", "d", "o", "r", " ", "m", "a", "y", " ", "t", "e", "r", "m", "i", "n", "a",
     "t", "e", ",", " ", "i", "n", "d", "e", "m", "n", "i", "t", "y", ",", " ", "w", "i", "t",
     "h", "o", "u", "t", " ", "n", "o", "t", "i", "c", "e" >>

\* no modal keyword and no risk keyword; a lease
TokNeutral ==
  << "r", "e", "n", "t", " ", "f", "o", "r", " ", "t", "h", "e", " ", "p", "r", "e", "m", "i",
     "s", "e", "s", " ", "i", "s", " ", "d", "u", "e", " ", "m", "o", "n", "t", "h", "l", "y" >>

\* a short obligation with a Hindi penalty keyword; an employment
TokShort ==
  << "E", "m", "p", "l", "o", "y", "e", "r", " ", "m", "u", "s", "t", ":", " ", "U+0926",
     "U+0902", "U+0921" >>

\* a leading blank, a sentence, a period followed by two whitespace characters, a short fragment
TokSentences ==
  << " ", "T", "h", "e", " ", "p", "a", "r", "t", "i", "e", "s", " ", "c", "a", "n", " ", "a",
     "g", "r", "e", "e", " ", "i", "n", " ", "w", "r", "i", "t", "i", "n", "g", " ", "o", "n",
     " ", "t", "h", "e", " ", "t", "e", "r", "m", ".", "\r", "\n", "N", "o", " ", "f", "i",
     "n", "e" >>

\* a period inside a number, then a sentence boundary
TokNumbered ==
  << "C", "l", "a", "u", "s", "e", " ", "4", ".", "1", " ", "a", "p", "p", "l", "i", "e", "s",
     ".", " " >>

MaxTokens == 3

Vocabulary ==
  { << "\n" >>, << "." >>, << "U+00A0", "\t" >>,
    TokProhibition, TokRight, TokNeutral, TokShort, TokSentences, TokNumbered }

\* the texts made of n tokens
RECURSIVE TextsOf(_)
TextsOf(n) ==
  IF n = 0 THEN { << >> }
  ELSE { t \o w : t \in TextsOf(n - 1), w \in Vocabulary }

Texts == UNION { TextsOf(n) : n \in 0..MaxTokens }

\* every session holds the same text: a composed text or the sample contract
InitText ==
  /\ InitPage
  /\ \E t \in Texts \cup { ScenarioText } : text = [ p \in Sessions |-> t ]
  /\ file = NoFile
  /\ history = << >>

\* extract_clauses, classify_contract, extract_entities and the per-clause
\* loop applied to the session's text, and extract_clauses applied again to
\* each clause it returned; the pipeline runs once, in either session
RunPipeline(p) ==
  /\ \A q \in Sessions : ui[q].handler = "none"
  /\ LET cs == extract_clauses(text[p])
         rs == [ i \in 1..Len(cs) |-> clause_result(cs[i]) ]
     IN  /\ clauses' = [ clauses EXCEPT ![p] = cs ]
         /\ contract_type' = [ contract_type EXCEPT ![p] = classify_contract(text[p]) ]
         /\ entities' = [ entities EXCEPT ![p] = extract_entities(text[p]) ]
         /\ results' = [ results EXCEPT ![p] = rs ]
         /\ scores' = [ scores EXCEPT ![p] = [ i \in 1..Len(cs) |-> rs[i].score ] ]
         /\ resegmented' =
              [ resegmented EXCEPT ![p] = [ i \in 1..Len(cs) |-> extract_clauses(cs[i]) ] ]
  /\ ui' = [ ui EXCEPT ![p] = Page("pipeline", "", "", << >>, FALSE, file, file) ]
  /\ UNCHANGED << presses, file, now, history, schedule, lastWriter, text,
                  composite_risk, pc, logs, entry >>

NextText == \E p \in Sessions : RunPipeline(p)

SpecText == InitText /\ [][NextText]_vars

(***************************************************************************)
(* Properties                                                              *)
(***************************************************************************)
IsPrefix(a, b) == Len(a) <= Len(b) /\ SubSeq(b, 1, Len(a)) = a

\* C1: from no audit file, after N appends made one after another the file
\* holds exactly the N entries appended, in the order of the appends; every
\* entry the file held when an Analyze run found it is still there,
\* unchanged, when the run ends; and with no append made, View Audit Log
\* shows the empty-state message and no error.
AppendOnlyLog ==
  schedule # "raced" =>
    /\ (\A p \in Sessions : ~Writing(p)) =>
          /\ file.exists <=> history # << >>
          /\ file.exists => file.kind = "array" /\ file.items = history
    /\ \A p \in Sessions : Writing(p) => logs[p] = history
    /\ \A p \in Sessions :
         Finished(p, "Analyze") => IsPrefix(ui[p].fileBefore.items, ui[p].fileAfter.items)
    /\ \A p \in Sessions :
         (Finished(p, "View") /\ ~ui[p].fileBefore.exists) =>
            /\ ui[p].error = ""
            /\ ui[p].message = "No audit logs available."
            /\ ui[p].lines = << >>

\* C1 witness: an Analyze run that appended to a log already holding entries,
\* with no two appends at the same time
AppendedToExistingLog ==
  /\ schedule # "raced"
  /\ \E p \in Sessions :
       /\ Finished(p, "Analyze")
       /\ ui[p].fileBefore.items # << >>
       /\ Len(ui[p].fileAfter.items) > Len(ui[p].fileBefore.items)
       /\ file.items = history
       /\ Len(history) >= 3

\* the list a session had loaded, before its own entry
Loaded(p) == SubSeq(logs[p], 1, Len(logs[p]) - 1)

\* every session completed an append, and their last appends started from
\* the same log
BothDoneFromSameLog ==
  /\ \A p \in Sessions : pc[p] \in { "audited", "idle" } /\ logs[p] # << >>
  /\ \A p, q \in Sessions : Loaded(p) = Loaded(q)

\* C2: when two sessions have both read the same prior log and both completed
\* their appends, the file holds nothing of the append written first: it
\* holds that prior log plus the one entry of the session that wrote last,
\* or, when the text written last was the shorter one, that text followed by
\* the end of the other, which is no JSON document.
LostUpdate ==
  BothDoneFromSameLog =>
    \/ /\ file.kind = "array"
       /\ file.items = Append(Loaded(lastWriter), entry[lastWriter])
       /\ Len(file.items) = Len(Loaded(lastWriter)) + 1
    \/ /\ file.kind = "garbage"
       /\ file.bytes > ByteLen(logs[lastWriter])

\* C2 witness: the interleaving happened on a log that held an entry, and the
\* entry written first is gone from a file that still holds an array
UpdateWasLost ==
  /\ BothDoneFromSameLog
  /\ file.kind = "array"
  /\ Loaded(lastWriter) # << >>
  /\ \E p \in Sessions :
       /\ p # lastWriter
       /\ \A k \in 1..Len(file.items) : file.items[k] # entry[p]
       /\ \E k \in 1..Len(history) : history[k] = entry[p]

\* C3: Analyze on a text with no clause does not end in the division fault
EmptyClauseSetHandled ==
  \A p \in Sessions :
    (Finished(p, "Analyze") /\ clauses[p] = << >>) => ui[p].error # "ZeroDivisionError"

\* C4 as claimed: with no other Analyze run under way at the same time, the
\* log is exactly one entry longer after an Analyze run
AnalyzeAppendsOne ==
  schedule = "sequential" =>
    \A p \in Sessions :
      Finished(p, "Analyze") =>
        Len(ui[p].fileAfter.items) = Len(ui[p].fileBefore.items) + 1

\* C4 amended: Analyze appends "Contract analyzed" when it starts and "PDF
\* report generated" once the report is built, so with no other Analyze run
\* under way at the same time a run that completes leaves the log two entries
\* longer; a run that stops at the composite score of an empty clause set
\* leaves it one entry longer.
AnalyzeAppendsTwoOrOne ==
  schedule = "sequential" =>
    \A p \in Sessions :
      Finished(p, "Analyze") =>
        LET n == Len(ui[p].fileBefore.items)
            after == ui[p].fileAfter.items
        IN  /\ Len(after) = n + (IF clauses[p] = << >> THEN 1 ELSE 2)
            /\ after[n + 1].action = "Contract analyzed"
            /\ clauses[p] # << >> => after[n + 2].action = "PDF report generated"

\* C4 witness: an Analyze run that completed, and one that stopped at the
\* composite score, one after the other
AnalyzeCompleted ==
  /\ schedule = "sequential"
  /\ \E p \in Sessions :
       /\ Finished(p, "Analyze")
       /\ ui[p].error = ""
       /\ ui[p].download
       /\ clauses[p] # << >>
  /\ \E p \in Sessions :
       /\ Finished(p, "Analyze")
       /\ ui[p].error = "ZeroDivisionError"

\* C5: on a file that is no array, the append made by Analyze and View Audit
\* Log both end in a reported error, and the file is left as it was
CorruptLogReported ==
  \A p \in Sessions :
    ((Finished(p, "Analyze") \/ Finished(p, "View")) /\ ui[p].fileBefore \in InvalidFiles) =>
      /\ ui[p].error # ""
      /\ ui[p].fileAfter = ui[p].fileBefore

\* the clauses occur in the text one after another, in their order
RECURSIVE InInputOrder(_, _, _)
InInputOrder(txt, cs, from) ==
  \/ cs = << >>
  \/ \E i \in from..Len(txt) :
       /\ MatchesAt(txt, Head(cs), i)
       /\ InInputOrder(txt, Tail(cs), i + Len(Head(cs)))

Tagged(r, type, risks) ==
  /\ r.type = type
  /\ Range(r.risks) = risks
  /\ Len(r.risks) = Cardinality(risks)

\* the pipeline has run on the sample contract
ScenarioAnalyzed(p) == ui[p].handler = "pipeline" /\ text[p] = ScenarioText

ScenarioCommon(p) ==
  /\ Len(clauses[p]) = 4
  /\ Len(results[p]) = 4
  /\ InInputOrder(text[p], clauses[p], 1)
  /\ Tagged(results[p][1], "Obligation", { "Indemnity Clause" })
  /\ Tagged(results[p][2], "Right", { "Termination Risk", "Unilateral Rights" })
  /\ Tagged(results[p][3], "Neutral", { "Penalty Clause" })
  /\ entities[p].Amounts = << << Rupee, "1", ",", "0", "0", ",", "0", "0", "0" >> >>
  /\ entities[p].Dates = << >>
  /\ entities[p].Jurisdiction = << >>

\* C6 as claimed: the fourth clause is a Prohibition with the Non-Compete risk
ScenarioAsClaimed ==
  \A p \in Sessions :
    ScenarioAnalyzed(p) =>
      ScenarioCommon(p) /\ Tagged(results[p][4], "Prohibition", { "Non-Compete Clause" })

\* C6 amended: four clauses in input order, tagged Obligation {Indemnity
\* Clause}, Right {Termination Risk, Unilateral Rights}, Neutral {Penalty
\* Clause} and Prohibition with no risk ("shall not compete" holds none of the
\* Non-Compete keywords); the amounts are the one rupee amount, and there is
\* no date and no jurisdiction.
ScenarioAsComputed ==
  \A p \in Sessions :
    ScenarioAnalyzed(p) => ScenarioCommon(p) /\ Tagged(results[p][4], "Prohibition", { })

\* C6 witness: the sample contract went through the pipeline
ScenarioWasAnalyzed ==
  \E p \in Sessions :
    /\ ScenarioAnalyzed(p)
    /\ Len(clauses[p]) = 4
    /\ Len(entities[p].Amounts) = 1

RiskNames == { RISK_MAP[g].name : g \in 1..Len(RISK_MAP) }
RiskIndex(name) == CHOOSE g \in 1..Len(RISK_MAP) : RISK_MAP[g].name = name
LevelRank(level) == CASE level = "Low" -> 0 [] level = "Medium" -> 1 [] level = "High" -> 2

\* C7: each clause's risks are names of the six categories, without
\* duplicates and in declaration order, so their count is 0 to 6; the level
\* is Low for 0, Medium for 1 or 2, High for 3 or more, and never decreases
\* as the count grows.
RisksAndLevels ==
  /\ Cardinality(RiskNames) = 6
  /\ \A p \in Sessions :
       \A i \in 1..Len(results[p]) :
         LET r == results[p][i]
         IN  /\ \A k \in 1..Len(r.risks) : r.risks[k] \in RiskNames
             /\ \A j, k \in 1..Len(r.risks) :
                  j < k => RiskIndex(r.risks[j]) < RiskIndex(r.risks[k])
             /\ r.score = Len(r.risks)
             /\ r.score \in 0..6
             /\ scores[p][i] = r.score
             /\ r.level = "Low" <=> r.score = 0
             /\ r.level = "Medium" <=> r.score \in { 1, 2 }
             /\ r.level = "High" <=> r.score >= 3
  /\ \A m, n \in 0..6 : m <= n => LevelRank(risk_level(m)) <= LevelRank(risk_level(n))

\* C7 witness: a text with a clause without risk and a clause with four
LowAndHighClauses ==
  \E p \in Sessions :
    /\ \E i \in 1..Len(results[p]) :
         results[p][i].score = 0 /\ results[p][i].level = "Low"
    /\ \E i \in 1..Len(results[p]) :
         results[p][i].score = 4 /\ results[p][i].level = "High"

\* C8: each clause gets exactly one of the four types, that of the first
\* keyword group found in its lower-cased text in the order Prohibition,
\* Obligation, Right, and Neutral when none is found.
ClauseTypePrecedence ==
  \A p \in Sessions :
    /\ Len(results[p]) = Len(clauses[p])
    /\ \A i \in 1..Len(clauses[p]) :
         LET c == lower(clauses[p][i])
             t == results[p][i].type
             prohibition == any_keyword(c, ProhibitionWords)
             obligation == any_keyword(c, ObligationWords)
             right == any_keyword(c, RightWords)
         IN  /\ t \in { "Prohibition", "Obligation", "Right", "Neutral" }
             /\ prohibition => t = "Prohibition"
             /\ (~prohibition /\ obligation) => t = "Obligation"
             /\ (~prohibition /\ ~obligation /\ right) => t = "Right"
             /\ (~prohibition /\ ~obligation /\ ~right) => t = "Neutral"

\* C8 witness: a Prohibition clause that also holds a Right keyword
ProhibitionOverRight ==
  \E p \in Sessions :
    \E i \in 1..Len(clauses[p]) :
      /\ results[p][i].type = "Prohibition"
      /\ any_keyword(lower(clauses[p][i]), RightWords)
      /\ any_keyword(lower(clauses[p][i]), ObligationWords)

ContractLabels ==
  { "Employment Agreement", "Lease Agreement", "Service Contract",
    "Vendor Agreement", GeneralLabel }

MatchingGroups(txt) ==
  { g \in 1..Len(rules) : any_keyword(lower(txt), rules[g].keywords) }

\* C9: the contract type is one of the five labels: that of the first group,
\* in the order Employment, Lease, Service, Vendor, with a keyword in the
\* lower-cased text, and the General label exactly when no group has one.
ContractLabel ==
  /\ [ g \in 1..Len(rules) |-> rules[g].name ] =
       << "Employment Agreement", "Lease Agreement", "Service Contract",
          "Vendor Agreement" >>
  /\ \A p \in Sessions :
       ui[p].handler = "pipeline" =>
         LET hits == MatchingGroups(text[p])
         IN  /\ contract_type[p] \in ContractLabels
             /\ contract_type[p] = GeneralLabel <=> hits = { }
             /\ hits # { } => contract_type[p] = rules[Min(hits)].name

\* C9 witness: two groups match and the earlier group wins
EarlierGroupWins ==
  \E p \in Sessions :
    /\ ui[p].handler = "pipeline"
    /\ contract_type[p] = "Lease Agreement"
    /\ Cardinality(MatchingGroups(text[p])) >= 2

\* C10: each clause returned is trimmed, longer than 30 characters, holds no
\* newline and no period followed by whitespace, and segmenting it again
\* gives that one clause.
SegmentationIdempotent ==
  \A p \in Sessions :
    /\ ui[p].handler = "pipeline" => Len(resegmented[p]) = Len(clauses[p])
    /\ \A i \in 1..Len(resegmented[p]) :
         LET c == clauses[p][i]
         IN  /\ Len(c) > 30
             /\ ~IsSpace(c[1])
             /\ ~IsSpace(c[Len(c)])
             /\ \A k \in 1..Len(c) : c[k] # "\n"
             /\ \A k \in 1..(Len(c) - 1) : ~(c[k] = "." /\ IsSpace(c[k + 1]))
             /\ resegmented[p][i] = << c >>

\* C10 witness: a text that starts with whitespace and gave two clauses
TwoTrimmedClauses ==
  \E p \in Sessions :
    /\ ui[p].handler = "pipeline"
    /\ Len(resegmented[p]) = 2
    /\ IsSpace(text[p][1])

====
